---- MODULE Spec2Model ----
(***************************************************************************)
(* The spreadsheet import pipeline of xinglong-d2-backend: the two import  *)
(* entry points, processExcelUpload (callable function, built on           *)
(* processExcel.ts) and uploadApplicationForm (HTTP function, index.ts),   *)
(* running against the two Firestore collections "registrants" and         *)
(* "registration_history".                                                 *)
(*                                                                         *)
(* Column headers and cell phrases are written in ASCII; the source line   *)
(* of each is given where it is used.  Times are integers relative to the  *)
(* start of the model; the wall clock advances once per invocation.        *)
(***************************************************************************)
EXTENDS Integers, Sequences, FiniteSets, TLC

(* ------------------------------------------------------------------ *)
(* Bounds of the model                                                *)
(* ------------------------------------------------------------------ *)

\* Rows one spreadsheet holds at most.
MaxRows == 3

\* Rows one spreadsheet holds at most under SpecRows (the wide row alphabet).
MaxWideRows == 1

\* Import invocations in one behaviour.
MaxImports == 2

\* Store operations that throw for unavailability in one behaviour.
MaxFailures == 1

\* Rows of a spreadsheet uploaded while another invocation runs.
MaxConcRows == 1

\* Rows of a spreadsheet that is uploaded twice.
MaxAgainRows == 2

(* ------------------------------------------------------------------ *)
(* Cells and spreadsheet rows                                         *)
(* ------------------------------------------------------------------ *)

\* row[header] of a column the sheet does not hold for this row: undefined.
Absent == "<undefined>"

\* A numeric cell holding 0 (sheet_to_json yields numbers for numeric cells).
NumZero == "<number 0>"

\* The null "no value" marker of a Registration field.
Null == "<null>"

\* A function member of Object.prototype (constructor, toString, ...), which
\* a lookup in a plain object literal yields for a key of that name.
Inherited == "<Object.prototype member>"

\* The entry points.
ProcessExcelUpload == "processExcelUpload"
UploadApplicationForm == "uploadApplicationForm"
Entries == {ProcessExcelUpload, UploadApplicationForm}

\* The fifteen columns whose text is stored (the sixteenth is the time).
TextFields ==
  {"activityName", "name", "email", "surveycakeHash", "phone", "gender",
   "age", "lineId", "childrenCount", "residentStatus", "housingLocation",
   "sportsExperience", "injuryHistory", "infoSource", "suggestions"}

\* A complete row of the form export.
BaseRow ==
  [activityName |-> "yoga", name |-> "n1", email |-> "n1@mail",
   surveycakeHash |-> "h1", phone |-> "0911", gender |-> "F", age |-> "30",
   lineId |-> "line1", childrenCount |-> "1", residentStatus |-> "shi",
   housingLocation |-> "xinglong", sportsExperience |-> "2",
   injuryHistory |-> "none", infoSource |-> "friend",
   suggestions |-> "thanks", submitTime |-> "2024-01-01 10:00"]

Person(r, n) == [r EXCEPT !.name = n, !.email = n \o "@mail"]
WithHash(r, h) == [r EXCEPT !.surveycakeHash = h]
WithCell(r, f, v) == [r EXCEPT ![f] = v]

RowA == BaseRow
RowB == WithHash(BaseRow, "h2")
RowC == Person(BaseRow, "n2")
RowD == WithCell(RowB, "phone", "")

\* The rows of Spec: two people, two hashes, one incomplete row.
CoreRows == {RowA, RowB, RowC, RowD}

\* The rows two overlapping invocations draw from.
ConcRows == {RowA, RowB, RowC}

\* RowB without its gender: complete for uploadApplicationForm's check,
\* incomplete for isValidRow.
RowE == WithCell(RowB, "gender", "")
AgainRows == {RowA, RowC, RowD, RowE}

\* The rows of SpecRows: every column emptied in turn, the resident-status
\* phrases of both tables and texts outside them, and the time cells.
BlankRows ==
  {WithCell(Person(RowB, "n2"), f, v) :
     f \in TextFields, v \in {""}}
  \cup {WithCell(RowB, f, Absent) : f \in {"gender", "residentStatus"}}
  \cup {WithCell(RowB, "childrenCount", NumZero)}

ResidentRows ==
  {WithCell(RowA, "residentStatus", v) :
     v \in {"fou", "fou, wenshan neighbour",
            "fou, other Taipei social housing", "none of the above",
            "maybe", "constructor"}}

TimeRows ==
  {WithCell(RowA, "submitTime", v) : v \in {"", Absent, "soon"}}

WideRows == {RowA, RowB} \cup BlankRows \cup ResidentRows \cup TimeRows

(* ------------------------------------------------------------------ *)
(* Normalization (extractRowData; the same lines inline in index.ts)  *)
(* ------------------------------------------------------------------ *)

\* String(cell || ""): undefined, 0 and "" are falsy.
OrEmpty(cell) == IF cell \in {Absent, NumZero, ""} THEN "" ELSE cell

\* String(cell): undefined prints as "undefined", 0 as "0".
Str(cell) ==
  IF cell = Absent THEN "undefined" ELSE IF cell = NumZero THEN "0" ELSE cell

\* The names every plain object inherits.
ObjectPrototypeKeys ==
  {"constructor", "toString", "valueOf", "hasOwnProperty", "isPrototypeOf"}

\* ResidentStatusEnum of processExcel.ts (shi, fou).
ResidentStatusEnumExcel ==
  [k \in {"shi", "fou"} |->
     IF k = "shi" THEN "resident" ELSE "non_resident"]

\* ResidentStatusEnum of index.ts (four phrases).
ResidentStatusEnumForm ==
  [k \in {"shi", "fou, wenshan neighbour",
          "fou, other Taipei social housing", "none of the above"} |->
     CASE k = "shi" -> "xinglongd2"
       [] k = "fou, wenshan neighbour" -> "wenshan"
       [] k = "fou, other Taipei social housing" -> "otherTaipeiSocialHousing"
       [] OTHER -> "other"]

ResidentStatusEnum(e) ==
  IF e = ProcessExcelUpload THEN ResidentStatusEnumExcel
  ELSE ResidentStatusEnumForm

\* The closed enumeration ResidentStatusType of each file.
ResidentStatusType(e) ==
  IF e = ProcessExcelUpload THEN {"resident", "non_resident", "other"}
  ELSE {"xinglongd2", "wenshan", "otherTaipeiSocialHousing", "other"}

\* table[key] of a JavaScript object literal: own keys, then the prototype's;
\* undefined (modelled as "") when neither holds the key.
JsLookup(table, key) ==
  IF key \in DOMAIN table THEN table[key]
  ELSE IF key \in ObjectPrototypeKeys THEN Inherited
  ELSE ""

\* The key looked up: String(cell) in extractRowData, String(cell || "") in
\* uploadApplicationForm.
ResidentKey(e, cell) == IF e = ProcessExcelUpload THEN Str(cell) ELSE OrEmpty(cell)

\* ResidentStatusOf without the || "other" default.
ResidentStatusOfNoDefault(e, cell) ==
  JsLookup(ResidentStatusEnum(e), ResidentKey(e, cell))

\* ResidentStatusEnum[key] || "other"
ResidentStatusOf(e, cell) ==
  LET v == JsLookup(ResidentStatusEnum(e), ResidentKey(e, cell))
  IN IF v = "" THEN "other" ELSE v

\* new Date(text): the texts the engine parses, and the time each denotes.
ParsedDate(text) ==
  IF text = "2024-01-01 10:00" THEN [nan |-> FALSE, t |-> -5]
  ELSE [nan |-> TRUE, t |-> 0]

\* SubmitTimeOf without the isNaN test and the empty-cell branch.
SubmitTimeAlwaysParsed(cell, clock) == ParsedDate(OrEmpty(cell)).t

\* The submit_time of a row: the parsed time, or the current time when the
\* cell is empty or does not parse.
SubmitTimeOf(cell, clock) ==
  LET submitTimeStr == OrEmpty(cell)
  IN IF submitTimeStr # ""
     THEN IF ~ParsedDate(submitTimeStr).nan
          THEN ParsedDate(submitTimeStr).t
          ELSE clock
     ELSE clock

extractRowData(e, row, clock) ==
  [activityName |-> OrEmpty(row.activityName),
   name |-> OrEmpty(row.name),
   email |-> OrEmpty(row.email),
   surveycakeHash |-> OrEmpty(row.surveycakeHash),
   phone |-> OrEmpty(row.phone),
   gender |-> OrEmpty(row.gender),
   age |-> OrEmpty(row.age),
   lineId |-> OrEmpty(row.lineId),
   childrenCount |-> OrEmpty(row.childrenCount),
   residentStatus |-> ResidentStatusOf(e, row.residentStatus),
   housingLocation |-> OrEmpty(row.housingLocation),
   sportsExperience |-> OrEmpty(row.sportsExperience),
   injuryHistory |-> OrEmpty(row.injuryHistory),
   infoSource |-> OrEmpty(row.infoSource),
   suggestions |-> OrEmpty(row.suggestions),
   submitTime |-> SubmitTimeOf(row.submitTime, clock)]

\* isValidRow asking only for the fields that identify the submission.
isValidRowIdentityOnly(d) ==
  \A f \in {"activityName", "name", "email", "surveycakeHash", "phone"} :
    d[f] # ""

\* isValidRow of processExcel.ts: all fifteen fields truthy.
isValidRow(d) == \A f \in TextFields : d[f] # ""

\* The check of uploadApplicationForm: name, email, phone, activity name.
IsNonBlankRow(d) ==
  ~(d.name = "" \/ d.email = "" \/ d.phone = "" \/ d.activityName = "")

\* Whether the entry point goes on with the row.
Accepts(e, d) ==
  IF e = ProcessExcelUpload THEN isValidRow(d) ELSE IsNonBlankRow(d)

(* ------------------------------------------------------------------ *)
(* Documents                                                          *)
(* ------------------------------------------------------------------ *)

\* buildRegistrantDoc with name and email taken from each other's field.
buildRegistrantDocSwapped(d, clock) ==
  [name |-> d.email, email |-> d.name, phone |-> d.phone,
   gender |-> d.gender, age |-> d.age, line_id |-> d.lineId,
   residient_type |-> d.residentStatus,
   created_at |-> clock, updated_at |-> clock]

\* buildRegistrantDoc (and the literal of uploadApplicationForm).
buildRegistrantDoc(d, clock) ==
  [name |-> d.name, email |-> d.email, phone |-> d.phone,
   gender |-> d.gender, age |-> d.age, line_id |-> d.lineId,
   residient_type |-> d.residentStatus,
   created_at |-> clock, updated_at |-> clock]

\* value || null
OrNull(v) == IF v = "" THEN Null ELSE v

\* buildRegistrationDoc without the id of the resolved Registrant.
buildRegistrationDocNoRegistrant(d, registrantId, clock) ==
  [registrant_id |-> 0,
   surveycake_hash |-> d.surveycakeHash,
   activity_name |-> d.activityName,
   name |-> d.name,
   residient_type |-> d.residentStatus,
   email |-> d.email,
   phone |-> d.phone,
   gender |-> OrNull(d.gender),
   line_id |-> OrNull(d.lineId),
   housing_location |-> OrNull(d.housingLocation),
   age |-> OrNull(d.age),
   children_count |-> OrNull(d.childrenCount),
   sports_experience |-> OrNull(d.sportsExperience),
   injury_history |-> OrNull(d.injuryHistory),
   info_source |-> OrNull(d.infoSource),
   suggestions |-> OrNull(d.suggestions),
   submit_time |-> d.submitTime,
   created_at |-> clock]

\* buildRegistrationDoc with surveycake_hash taken from the wrong field.
buildRegistrationDocEmailAsHash(d, registrantId, clock) ==
  [registrant_id |-> registrantId,
   surveycake_hash |-> d.email,
   activity_name |-> d.activityName,
   name |-> d.name,
   residient_type |-> d.residentStatus,
   email |-> d.email,
   phone |-> d.phone,
   gender |-> OrNull(d.gender),
   line_id |-> OrNull(d.lineId),
   housing_location |-> OrNull(d.housingLocation),
   age |-> OrNull(d.age),
   children_count |-> OrNull(d.childrenCount),
   sports_experience |-> OrNull(d.sportsExperience),
   injury_history |-> OrNull(d.injuryHistory),
   info_source |-> OrNull(d.infoSource),
   suggestions |-> OrNull(d.suggestions),
   submit_time |-> d.submitTime,
   created_at |-> clock]

\* buildRegistrationDoc (and the literal of uploadApplicationForm).
buildRegistrationDoc(d, registrantId, clock) ==
  [registrant_id |-> registrantId,
   surveycake_hash |-> d.surveycakeHash,
   activity_name |-> d.activityName,
   name |-> d.name,
   residient_type |-> d.residentStatus,
   email |-> d.email,
   phone |-> d.phone,
   gender |-> OrNull(d.gender),
   line_id |-> OrNull(d.lineId),
   housing_location |-> OrNull(d.housingLocation),
   age |-> OrNull(d.age),
   children_count |-> OrNull(d.childrenCount),
   sports_experience |-> OrNull(d.sportsExperience),
   injury_history |-> OrNull(d.injuryHistory),
   info_source |-> OrNull(d.infoSource),
   suggestions |-> OrNull(d.suggestions),
   submit_time |-> d.submitTime,
   created_at |-> clock]

(* ------------------------------------------------------------------ *)
(* The document store: a collection is a set of [id, data] documents  *)
(* ------------------------------------------------------------------ *)

\* AddDoc as doc(id).set(data) under one fixed id: the document under that
\* id is overwritten.
AddDocFixedId(coll, data) ==
  {doc \in coll : doc.id # 1} \cup {[id |-> 1, data |-> data]}

\* collection.add(data): the store assigns an id no document of the
\* collection has.
AddDoc(coll, data) == coll \cup {[id |-> Cardinality(coll) + 1, data |-> data]}

\* The id add() returned.
AddedId(coll) == Cardinality(coll) + 1

\* RegistrantsWhere with the phone compared against the wrong field.
RegistrantsWherePhoneIsEmail(coll, name, phone) ==
  {doc \in coll : doc.data.name = name /\ doc.data.email = phone}

\* RegistrantsWhere with the two fields compared against each other's value.
RegistrantsWhereSwapped(coll, name, phone) ==
  {doc \in coll : doc.data.name = phone /\ doc.data.phone = name}

\* registrants.where("name", "==", name).where("phone", "==", phone).get()
RegistrantsWhere(coll, name, phone) ==
  {doc \in coll : doc.data.name = name /\ doc.data.phone = phone}

\* RegistrationsWhere with the hash compared against the wrong field.
RegistrationsWhereActivity(coll, hash) ==
  {doc \in coll : doc.data.activity_name = hash}

\* registration_history.where("surveycake_hash", "==", hash).get()
RegistrationsWhere(coll, hash) ==
  {doc \in coll : doc.data.surveycake_hash = hash}

\* Whether the client library can serialize the document: a function, which
\* most Object.prototype members are, is not a Firestore value.
Serializable(data) == data.residient_type # Inherited

(* ------------------------------------------------------------------ *)
(* The response                                                       *)
(* ------------------------------------------------------------------ *)

NoResult == [kind |-> "none"]

\* MessageParts with the skipped and duplicate parts whatever their counts.
MessagePartsAll(processed, skipped, duplicate) ==
  << [part |-> "processed", count |-> processed],
     [part |-> "skipped", count |-> skipped],
     [part |-> "duplicate", count |-> duplicate] >>

\* messageParts: the processed part, then the skipped and duplicate parts
\* when their counts are positive.
MessageParts(processed, skipped, duplicate) ==
  << [part |-> "processed", count |-> processed] >>
  \o (IF skipped > 0 THEN << [part |-> "skipped", count |-> skipped] >>
      ELSE << >>)
  \o (IF duplicate > 0 THEN << [part |-> "duplicate", count |-> duplicate] >>
      ELSE << >>)

\* The report both entry points return after the row loop.
SuccessReport(processed, skipped, duplicate) ==
  [kind |-> "report", success |-> TRUE,
   message |-> MessageParts(processed, skipped, duplicate),
   processedCount |-> processed, skippedCount |-> skipped,
   duplicateCount |-> duplicate]

\* What the outer catch hands the caller: processExcelUpload throws an
\* HttpsError, uploadApplicationForm sends a 500 body.
FailureResult(e) ==
  IF e = ProcessExcelUpload
  THEN [kind |-> "exception", code |-> "internal"]
  ELSE [kind |-> "report", success |-> FALSE,
        message |-> << [part |-> "failed", count |-> 0] >>,
        processedCount |-> 0]

(* ------------------------------------------------------------------ *)
(* State                                                              *)
(* ------------------------------------------------------------------ *)

\* The invocations that may run; Spec and SpecRows run them one at a time.
Procs == {"p1", "p2"}

VARIABLES
  registrants,           \* the "registrants" collection
  registration_history,  \* the "registration_history" collection
  now,                   \* the wall clock; also the invocations started
  failures,              \* store operations that threw for unavailability
  kept,                  \* the rows of the spreadsheet the client keeps
  keptState,             \* "none", "clean" or "dirty": see Return, CatchRow
  pc,                    \* where each invocation stands
  entry,                 \* the entry point each invocation runs
  mode,                  \* "fresh", "keep" (the client keeps the sheet) or
                         \* "again" (the client uploads the kept sheet)
  idx,                   \* rows of jsonData the loop has taken
  row,                   \* the loop variable: the spreadsheet row
  rowData,               \* the normalized row
  registrantsQueryEmpty, \* registrantsQuery.empty
  registrantId,
  processedCount,
  skippedCount,
  duplicateCount,
  rowWrites,             \* documents the current row has added
  result                 \* what the invocation hands its caller

storeVars == << registrants, registration_history >>
clientVars == << kept, keptState >>
countVars == << processedCount, skippedCount, duplicateCount >>
rowVars == << idx, row, rowData, registrantsQueryEmpty, registrantId, rowWrites >>
vars == << registrants, registration_history, now, failures, kept, keptState,
           pc, entry, mode, idx, row, rowData, registrantsQueryEmpty,
           registrantId, processedCount, skippedCount, duplicateCount,
           rowWrites, result >>

NoRow == [r \in {} |-> ""]

Init ==
  /\ registrants = {}
  /\ registration_history = {}
  /\ now = 0
  /\ failures = 0
  /\ kept = << >>
  /\ keptState = "none"
  /\ pc = [p \in Procs |-> "idle"]
  /\ entry = [p \in Procs |-> ProcessExcelUpload]
  /\ mode = [p \in Procs |-> "fresh"]
  /\ idx = [p \in Procs |-> 0]
  /\ row = [p \in Procs |-> NoRow]
  /\ rowData = [p \in Procs |-> NoRow]
  /\ registrantsQueryEmpty = [p \in Procs |-> FALSE]
  /\ registrantId = [p \in Procs |-> 0]
  /\ processedCount = [p \in Procs |-> 0]
  /\ skippedCount = [p \in Procs |-> 0]
  /\ duplicateCount = [p \in Procs |-> 0]
  /\ rowWrites = [p \in Procs |-> 0]
  /\ result = [p \in Procs |-> NoResult]

(* ------------------------------------------------------------------ *)
(* The invocation: request, decode, row loop, response                *)
(* ------------------------------------------------------------------ *)

\* A request reaches entry point e (authentication and the presence of the
\* payload, which precede the try block, have passed).
Invoke(p, e, m) ==
  /\ pc[p] = "idle"
  /\ now < MaxImports
  /\ IF keptState = "none" THEN m \in {"fresh", "keep"} ELSE m = "again"
  /\ now' = now + 1
  /\ pc' = [pc EXCEPT ![p] = "parse"]
  /\ entry' = [entry EXCEPT ![p] = e]
  /\ mode' = [mode EXCEPT ![p] = m]
  /\ result' = [result EXCEPT ![p] = NoResult]
  /\ UNCHANGED << storeVars, failures, clientVars, rowVars, countVars >>

\* XLSX.read and sheet_to_json succeed: the counters start at 0.
ParseOk(p) ==
  /\ pc[p] = "parse"
  /\ pc' = [pc EXCEPT ![p] = "loop"]
  /\ idx' = [idx EXCEPT ![p] = 0]
  /\ processedCount' = [processedCount EXCEPT ![p] = 0]
  /\ skippedCount' = [skippedCount EXCEPT ![p] = 0]
  /\ duplicateCount' = [duplicateCount EXCEPT ![p] = 0]
  /\ UNCHANGED << storeVars, now, failures, clientVars, entry, mode, row,
                  rowData, registrantsQueryEmpty, registrantId, rowWrites,
                  result >>

\* XLSX.read throws (a payload that decoded before decodes again): the outer
\* catch answers.
ParseFails(p) ==
  /\ pc[p] = "parse"
  /\ mode[p] # "again"
  /\ pc' = [pc EXCEPT ![p] = "done"]
  /\ result' = [result EXCEPT ![p] = FailureResult(entry[p])]
  /\ idx' = [idx EXCEPT ![p] = 0]
  /\ processedCount' = [processedCount EXCEPT ![p] = 0]
  /\ skippedCount' = [skippedCount EXCEPT ![p] = 0]
  /\ duplicateCount' = [duplicateCount EXCEPT ![p] = 0]
  /\ UNCHANGED << storeVars, now, failures, clientVars, entry, mode, row,
                  rowData, registrantsQueryEmpty, registrantId, rowWrites >>

\* The loop takes the next row of jsonData, normalizes it and applies the
\* entry point's check; a rejected row is counted and the loop goes on.
NextRow(p, Rows, maxRows) ==
  /\ pc[p] = "loop"
  /\ idx[p] < maxRows
  /\ \E r \in Rows :
       /\ mode[p] = "again" => idx[p] < Len(kept) /\ r = kept[idx[p] + 1]
       /\ LET d == extractRowData(entry[p], r, now)
          IN /\ row' = [row EXCEPT ![p] = r]
             /\ rowData' = [rowData EXCEPT ![p] = d]
             /\ idx' = [idx EXCEPT ![p] = @ + 1]
             /\ rowWrites' = [rowWrites EXCEPT ![p] = 0]
             /\ kept' = IF mode[p] = "keep" THEN Append(kept, r) ELSE kept
             /\ IF Accepts(entry[p], d)
                THEN /\ pc' = [pc EXCEPT ![p] = "queryRegistrants"]
                     /\ UNCHANGED skippedCount
                ELSE /\ skippedCount' = [skippedCount EXCEPT ![p] = @ + 1]
                     /\ UNCHANGED pc
  /\ UNCHANGED << storeVars, now, failures, keptState, entry, mode,
                  registrantsQueryEmpty, registrantId, processedCount,
                  duplicateCount, result >>

\* QueryRegistrants going straight to the record insert when the person is
\* on file, the hash lookup left out.
QueryRegistrantsThenInsert(p) ==
  /\ pc[p] = "queryRegistrants"
  /\ LET found == RegistrantsWhere(registrants, rowData[p].name, rowData[p].phone)
     IN /\ registrantsQueryEmpty' = [registrantsQueryEmpty EXCEPT ![p] = found = {}]
        /\ IF found = {}
           THEN /\ pc' = [pc EXCEPT ![p] = "addRegistrant"]
                /\ UNCHANGED registrantId
           ELSE /\ pc' = [pc EXCEPT ![p] = "addRegistration"]
                /\ \E doc \in found :
                     registrantId' = [registrantId EXCEPT ![p] = doc.id]
  /\ UNCHANGED << storeVars, now, failures, clientVars, entry, mode, idx, row,
                  rowData, rowWrites, countVars, result >>

\* QueryRegistrants reading a snapshot taken when the invocation started:
\* the documents the invocation itself added are not seen.
QueryRegistrantsSnapshot(p) ==
  /\ pc[p] = "queryRegistrants"
  /\ LET found == RegistrantsWhere({doc \in registrants : doc.data.created_at < now},
                                   rowData[p].name, rowData[p].phone)
     IN /\ registrantsQueryEmpty' = [registrantsQueryEmpty EXCEPT ![p] = found = {}]
        /\ IF found = {}
           THEN /\ pc' = [pc EXCEPT ![p] = "addRegistrant"]
                /\ UNCHANGED registrantId
           ELSE /\ pc' = [pc EXCEPT ![p] = "queryRegistration"]
                /\ \E doc \in found :
                     registrantId' = [registrantId EXCEPT ![p] = doc.id]
  /\ UNCHANGED << storeVars, now, failures, clientVars, entry, mode, idx, row,
                  rowData, rowWrites, countVars, result >>

\* await registrants.where(name).where(phone).get(), then the branch on
\* registrantsQuery.empty; docs[0] is any of the matches.
QueryRegistrants(p) ==
  /\ pc[p] = "queryRegistrants"
  /\ LET found == RegistrantsWhere(registrants, rowData[p].name, rowData[p].phone)
     IN /\ registrantsQueryEmpty' = [registrantsQueryEmpty EXCEPT ![p] = found = {}]
        /\ IF found = {}
           THEN /\ pc' = [pc EXCEPT ![p] = "addRegistrant"]
                /\ UNCHANGED registrantId
           ELSE /\ pc' = [pc EXCEPT ![p] = "queryRegistration"]
                /\ \E doc \in found :
                     registrantId' = [registrantId EXCEPT ![p] = doc.id]
  /\ UNCHANGED << storeVars, now, failures, clientVars, entry, mode, idx, row,
                  rowData, rowWrites, countVars, result >>

\* await registrants.add(registrantDoc)
AddRegistrant(p) ==
  /\ pc[p] = "addRegistrant"
  /\ LET data == buildRegistrantDoc(rowData[p], now)
     IN /\ Serializable(data)
        /\ registrants' = AddDoc(registrants, data)
        /\ registrantId' = [registrantId EXCEPT ![p] = AddedId(registrants)]
  /\ rowWrites' = [rowWrites EXCEPT ![p] = @ + 1]
  /\ pc' = [pc EXCEPT ![p] = "queryRegistration"]
  /\ UNCHANGED << registration_history, now, failures, clientVars, entry, mode,
                  idx, row, rowData, registrantsQueryEmpty, countVars, result >>

\* QueryRegistration with the duplicate counted in skippedCount.
QueryRegistrationCountsSkipped(p) ==
  /\ pc[p] = "queryRegistration"
  /\ IF RegistrationsWhere(registration_history, rowData[p].surveycakeHash) # {}
     THEN /\ skippedCount' = [skippedCount EXCEPT ![p] = @ + 1]
          /\ pc' = [pc EXCEPT ![p] = "loop"]
     ELSE /\ pc' = [pc EXCEPT ![p] = "addRegistration"]
          /\ UNCHANGED skippedCount
  /\ UNCHANGED << storeVars, now, failures, clientVars, entry, mode, rowVars,
                  processedCount, duplicateCount, result >>

\* await registration_history.where(surveycake_hash).get(), then the
\* duplicate branch.
QueryRegistration(p) ==
  /\ pc[p] = "queryRegistration"
  /\ IF RegistrationsWhere(registration_history, rowData[p].surveycakeHash) # {}
     THEN /\ duplicateCount' = [duplicateCount EXCEPT ![p] = @ + 1]
          /\ pc' = [pc EXCEPT ![p] = "loop"]
     ELSE /\ pc' = [pc EXCEPT ![p] = "addRegistration"]
          /\ UNCHANGED duplicateCount
  /\ UNCHANGED << storeVars, now, failures, clientVars, entry, mode, rowVars,
                  processedCount, skippedCount, result >>

\* AddRegistration as a transaction that looks the hash up again and counts
\* the row as a duplicate when a document carries it.
AddRegistrationChecked(p) ==
  /\ pc[p] = "addRegistration"
  /\ LET data == buildRegistrationDoc(rowData[p], registrantId[p], now)
     IN IF RegistrationsWhere(registration_history, data.surveycake_hash) = {}
        THEN /\ Serializable(data)
             /\ registration_history' = AddDoc(registration_history, data)
             /\ rowWrites' = [rowWrites EXCEPT ![p] = @ + 1]
             /\ processedCount' = [processedCount EXCEPT ![p] = @ + 1]
             /\ UNCHANGED duplicateCount
        ELSE /\ duplicateCount' = [duplicateCount EXCEPT ![p] = @ + 1]
             /\ UNCHANGED << registration_history, rowWrites, processedCount >>
  /\ pc' = [pc EXCEPT ![p] = "loop"]
  /\ UNCHANGED << registrants, now, failures, clientVars, entry, mode, idx,
                  row, rowData, registrantsQueryEmpty, registrantId,
                  skippedCount, result >>

\* await registration_history.add(registrationDoc); processedCount++
AddRegistration(p) ==
  /\ pc[p] = "addRegistration"
  /\ LET data == buildRegistrationDoc(rowData[p], registrantId[p], now)
     IN /\ Serializable(data)
        /\ registration_history' = AddDoc(registration_history, data)
  /\ rowWrites' = [rowWrites EXCEPT ![p] = @ + 1]
  /\ processedCount' = [processedCount EXCEPT ![p] = @ + 1]
  /\ pc' = [pc EXCEPT ![p] = "loop"]
  /\ UNCHANGED << registrants, now, failures, clientVars, entry, mode, idx,
                  row, rowData, registrantsQueryEmpty, registrantId,
                  skippedCount, duplicateCount, result >>

\* CatchRow without skippedCount++.
CatchRowUncounted(p) ==
  /\ pc' = [pc EXCEPT ![p] = "loop"]
  /\ mode' = [mode EXCEPT ![p] = "fresh"]
  /\ kept' = IF mode[p] = "fresh" THEN kept ELSE << >>
  /\ keptState' = IF mode[p] = "fresh" THEN keptState ELSE "none"
  /\ UNCHANGED skippedCount

\* CatchRow rethrowing: the exception leaves the row loop.
CatchRowEscapes(p) ==
  /\ skippedCount' = [skippedCount EXCEPT ![p] = @ + 1]
  /\ pc' = [pc EXCEPT ![p] = "done"]
  /\ mode' = [mode EXCEPT ![p] = "fresh"]
  /\ kept' = IF mode[p] = "fresh" THEN kept ELSE << >>
  /\ keptState' = IF mode[p] = "fresh" THEN keptState ELSE "none"

\* The row's catch block: log, skippedCount++, next row.  The kept sheet is
\* followed only through imports that catch no exception.
CatchRow(p) ==
  /\ skippedCount' = [skippedCount EXCEPT ![p] = @ + 1]
  /\ pc' = [pc EXCEPT ![p] = "loop"]
  /\ mode' = [mode EXCEPT ![p] = "fresh"]
  /\ kept' = IF mode[p] = "fresh" THEN kept ELSE << >>
  /\ keptState' = IF mode[p] = "fresh" THEN keptState ELSE "none"

\* A lookup or an insert throws because the store is unavailable; the
\* operation has no effect.
StoreThrows(p) ==
  /\ pc[p] \in {"queryRegistrants", "addRegistrant", "queryRegistration",
                "addRegistration"}
  /\ failures < MaxFailures
  /\ failures' = failures + 1
  /\ CatchRow(p)
  /\ UNCHANGED << storeVars, now, entry, rowVars, processedCount,
                  duplicateCount, result >>

\* add() throws because the document holds a value that is no Firestore
\* value; nothing is written.
AddRejects(p) ==
  /\ \/ /\ pc[p] = "addRegistrant"
        /\ ~Serializable(buildRegistrantDoc(rowData[p], now))
     \/ /\ pc[p] = "addRegistration"
        /\ ~Serializable(buildRegistrationDoc(rowData[p], registrantId[p], now))
  /\ CatchRow(p)
  /\ UNCHANGED << storeVars, now, failures, entry, rowVars, processedCount,
                  duplicateCount, result >>

\* jsonData is exhausted: the message is built and the report returned.
EndLoop(p) ==
  /\ pc[p] = "loop"
  /\ mode[p] = "again" => idx[p] = Len(kept)
  /\ result' = [result EXCEPT ![p] =
       SuccessReport(processedCount[p], skippedCount[p], duplicateCount[p])]
  /\ pc' = [pc EXCEPT ![p] = "done"]
  /\ UNCHANGED << storeVars, now, failures, clientVars, entry, mode, rowVars,
                  countVars >>

\* The caller has the result and the invocation's locals are gone.  A client
\* that kept the sheet of an import holds it for the next upload: "clean"
\* when that import skipped no row, "dirty" otherwise.
Return(p) ==
  /\ pc[p] = "done"
  /\ pc' = [pc EXCEPT ![p] = "idle"]
  /\ IF mode[p] = "keep" /\ result[p].kind = "report" /\ result[p].success
     THEN /\ keptState' = IF skippedCount[p] = 0 THEN "clean" ELSE "dirty"
          /\ UNCHANGED kept
     ELSE /\ keptState' = "none"
          /\ kept' = << >>
  /\ entry' = [entry EXCEPT ![p] = ProcessExcelUpload]
  /\ mode' = [mode EXCEPT ![p] = "fresh"]
  /\ idx' = [idx EXCEPT ![p] = 0]
  /\ row' = [row EXCEPT ![p] = NoRow]
  /\ rowData' = [rowData EXCEPT ![p] = NoRow]
  /\ registrantsQueryEmpty' = [registrantsQueryEmpty EXCEPT ![p] = FALSE]
  /\ registrantId' = [registrantId EXCEPT ![p] = 0]
  /\ processedCount' = [processedCount EXCEPT ![p] = 0]
  /\ skippedCount' = [skippedCount EXCEPT ![p] = 0]
  /\ duplicateCount' = [duplicateCount EXCEPT ![p] = 0]
  /\ rowWrites' = [rowWrites EXCEPT ![p] = 0]
  /\ result' = [result EXCEPT ![p] = NoResult]
  /\ UNCHANGED << storeVars, now, failures >>

(* ------------------------------------------------------------------ *)
(* Specifications                                                     *)
(* ------------------------------------------------------------------ *)

\* Both collections are empty.
EmptyStore == registrants = {} /\ registration_history = {}

\* Non-overlapping invocations over the rows of CoreRows, every document of
\* which is serializable (AddRejects is never enabled).
Next ==
  \E p \in {"p1"} :
    \/ \E e \in Entries, m \in {"fresh", "keep"} : Invoke(p, e, m)
    \/ ParseOk(p)
    \/ ParseFails(p)
    \/ NextRow(p, CoreRows, MaxRows)
    \/ QueryRegistrants(p)
    \/ AddRegistrant(p)
    \/ QueryRegistration(p)
    \/ AddRegistration(p)
    \/ StoreThrows(p)
    \/ EndLoop(p)
    \/ Return(p)

Spec == Init /\ [][Next]_vars

\* Uploads into an empty store over the rows of WideRows.
NextWide ==
  \E p \in {"p1"} :
    \/ \E e \in Entries : EmptyStore /\ Invoke(p, e, "fresh")
    \/ ParseOk(p)
    \/ ParseFails(p)
    \/ NextRow(p, WideRows, MaxWideRows)
    \/ QueryRegistrants(p)
    \/ AddRegistrant(p)
    \/ QueryRegistration(p)
    \/ AddRegistration(p)
    \/ StoreThrows(p)
    \/ AddRejects(p)
    \/ EndLoop(p)
    \/ Return(p)

SpecRows == Init /\ [][NextWide]_vars

\* Overlapping invocations: as many uploads as there are invocations, one
\* after the other or with their steps interleaved at every await, over the
\* rows of ConcRows.
NextConc ==
  \E p \in Procs :
    \/ \E e \in Entries : now < Cardinality(Procs) /\ Invoke(p, e, "fresh")
    \/ ParseOk(p)
    \/ ParseFails(p)
    \/ NextRow(p, ConcRows, MaxConcRows)
    \/ QueryRegistrants(p)
    \/ AddRegistrant(p)
    \/ QueryRegistration(p)
    \/ AddRegistration(p)
    \/ StoreThrows(p)
    \/ EndLoop(p)
    \/ Return(p)

SpecConc == Init /\ [][NextConc]_vars

\* A client imports a sheet over the rows of AgainRows and uploads the same
\* sheet again, through either entry point.
NextAgain ==
  \E p \in {"p1"} :
    \/ \E e \in Entries, m \in {"keep", "again"} : Invoke(p, e, m)
    \/ ParseOk(p)
    \/ ParseFails(p)
    \/ NextRow(p, AgainRows, MaxAgainRows)
    \/ QueryRegistrants(p)
    \/ AddRegistrant(p)
    \/ QueryRegistration(p)
    \/ AddRegistration(p)
    \/ StoreThrows(p)
    \/ EndLoop(p)
    \/ Return(p)

SpecAgain == Init /\ [][NextAgain]_vars

(* ------------------------------------------------------------------ *)
(* Properties                                                         *)
(* ------------------------------------------------------------------ *)

\* The states in which a row that passed the entry point's check is being
\* reconciled against the store.
RowStates ==
  {"queryRegistrants", "addRegistrant", "queryRegistration", "addRegistration"}

\* The documents of a collection written by the invocation under way, and
\* those of earlier invocations (the clock advances with each invocation).
WrittenNow(coll) == {doc \in coll : doc.data.created_at = now}
WrittenBefore(coll) == {doc \in coll : doc.data.created_at < now}

\* The normalized i-th row of the kept sheet, as invocation p reads it.
KeptData(p, i) == extractRowData(entry[p], kept[i], now)

\* Invocation p has returned a success report.
Reported(p) ==
  pc[p] = "done" /\ result[p].kind = "report" /\ result[p].success

\* C1: after any sequence of non-overlapping imports from an empty store, no
\* two documents of registration_history carry the same content hash.
NoDuplicateHash ==
  \A a, b \in registration_history :
    a.data.surveycake_hash = b.data.surveycake_hash => a = b

\* C1 witness: a second import has met a hash already on record and two
\* records of distinct hashes are stored.
NoDuplicateHashWitness ==
  \E p \in Procs :
    /\ Reported(p)
    /\ now >= 2
    /\ result[p].duplicateCount >= 1
    /\ Cardinality(registration_history) >= 2

\* The precondition of C2: the kept sheet was imported without a skipped row
\* or an exception, is now imported again without an exception, and every
\* row passes the check of the entry point now running.
Reimported(p) ==
  /\ Reported(p)
  /\ mode[p] = "again"
  /\ keptState = "clean"
  /\ \A i \in 1..Len(kept) : Accepts(entry[p], KeptData(p, i))

\* C2 as amended: the second import of a sheet of N valid rows, no store
\* operation throwing in either run, reports processedCount = 0,
\* duplicateCount = N and skippedCount = 0.
ReimportCountsDuplicates ==
  \A p \in Procs :
    Reimported(p) =>
      /\ result[p].processedCount = 0
      /\ result[p].duplicateCount = Len(kept)
      /\ result[p].skippedCount = 0

\* C2 witness: a sheet of at least two rows has been imported twice.
ReimportWitness ==
  \E p \in Procs : Reimported(p) /\ Len(kept) >= 2

\* C2 as stated: the second import reports processedCount = N,
\* duplicateCount = N and skippedCount = 0.
ReimportCountsProcessed ==
  \A p \in Procs :
    Reimported(p) =>
      /\ result[p].processedCount = Len(kept)
      /\ result[p].duplicateCount = Len(kept)
      /\ result[p].skippedCount = 0

\* C3: the three counters account for every row taken from jsonData, one
\* counter per row: at the loop head and in the report they sum to the
\* number of rows taken, and while a row is under way to one less.
CounterConservation ==
  \A p \in Procs :
    LET sum == processedCount[p] + skippedCount[p] + duplicateCount[p]
    IN /\ pc[p] = "loop" => sum = idx[p]
       /\ pc[p] \in RowStates => sum = idx[p] - 1
       /\ Reported(p) =>
            result[p].processedCount + result[p].skippedCount
              + result[p].duplicateCount = idx[p]

\* C3 witness: a report over processed, rejected, duplicate and failing rows.
CounterConservationWitness ==
  \E p \in Procs :
    /\ Reported(p)
    /\ result[p].processedCount >= 1
    /\ result[p].duplicateCount >= 1
    /\ result[p].skippedCount >= 1
    /\ failures >= 1

\* C4 as stated: a row with any of the fifteen fields empty after
\* normalization is counted as skipped and goes no further, under either
\* entry point.
CompletenessGate ==
  [][\A p \in Procs :
       idx'[p] = idx[p] + 1 /\ ~isValidRow(rowData'[p]) =>
         /\ skippedCount'[p] = skippedCount[p] + 1
         /\ pc'[p] = "loop"
         /\ rowWrites'[p] = 0]_vars

\* Rows i < j of the kept sheet are two accepted rows of one person with
\* distinct hashes that no other row of the sheet carries, and the store
\* held neither that person nor either hash before this import.
ReusePair(p, i, j) ==
  LET di == KeptData(p, i)
      dj == KeptData(p, j)
  IN /\ Accepts(entry[p], di) /\ Accepts(entry[p], dj)
     /\ di.name = dj.name /\ di.phone = dj.phone
     /\ di.surveycakeHash # dj.surveycakeHash
     /\ \A k \in (1..Len(kept)) \ {i, j} :
          KeptData(p, k).surveycakeHash
            \notin {di.surveycakeHash, dj.surveycakeHash}
     /\ RegistrantsWhere(WrittenBefore(registrants), di.name, di.phone) = {}
     /\ RegistrationsWhere(WrittenBefore(registration_history),
                           di.surveycakeHash) = {}
     /\ RegistrationsWhere(WrittenBefore(registration_history),
                           dj.surveycakeHash) = {}

\* C5: two valid rows of one batch with one (name, phone) and distinct
\* hashes, imported (no store operation throwing) into a store that knows
\* neither, leave exactly one Registrant of that (name, phone) and one
\* RegistrationRecord per hash, both carrying that Registrant's id.
RegistrantReuse ==
  \A p \in Procs :
    Reported(p) /\ mode[p] = "keep" =>
      \A i, j \in 1..Len(kept) :
        i < j /\ ReusePair(p, i, j) =>
          LET di == KeptData(p, i)
              dj == KeptData(p, j)
              who == RegistrantsWhere(registrants, di.name, di.phone)
              ri == RegistrationsWhere(registration_history, di.surveycakeHash)
              rj == RegistrationsWhere(registration_history, dj.surveycakeHash)
          IN /\ Cardinality(who) = 1
             /\ Cardinality(ri) = 1
             /\ Cardinality(rj) = 1
             /\ \A w \in who, r \in ri \cup rj : r.data.registrant_id = w.id

\* C5 witness: such a pair has been imported.
RegistrantReuseWitness ==
  \E p \in Procs :
    /\ Reported(p) /\ mode[p] = "keep"
    /\ \E i, j \in 1..Len(kept) : i < j /\ ReusePair(p, i, j)

\* The kept sheet is the three-row scenario: a new person with a new hash,
\* the same person with another new hash, and the first submission again.
Scenario(p) ==
  /\ Len(kept) = 3
  /\ LET d1 == KeptData(p, 1)
         d2 == KeptData(p, 2)
         d3 == KeptData(p, 3)
     IN /\ \A i \in 1..3 : Accepts(entry[p], KeptData(p, i))
        /\ RegistrantsWhere(WrittenBefore(registrants), d1.name, d1.phone) = {}
        /\ RegistrationsWhere(WrittenBefore(registration_history),
                              d1.surveycakeHash) = {}
        /\ d2.name = d1.name /\ d2.phone = d1.phone
        /\ d2.surveycakeHash # d1.surveycakeHash
        /\ RegistrationsWhere(WrittenBefore(registration_history),
                              d2.surveycakeHash) = {}
        /\ d3.surveycakeHash = d1.surveycakeHash
        /\ d3.name = d1.name /\ d3.phone = d1.phone

\* The duplicate lookup of invocation p returns, having found a record.
DuplicateFound(p) ==
  /\ pc[p] = "queryRegistration"
  /\ pc'[p] # "queryRegistration"
  /\ skippedCount'[p] = skippedCount[p]
  /\ RegistrationsWhere(registration_history, rowData[p].surveycakeHash) # {}

\* The report of the scenario.
ScenarioReport(p) ==
  Reported(p) /\ mode[p] = "keep" /\ Scenario(p) =>
    /\ result[p].processedCount = 2
    /\ result[p].duplicateCount = 1
    /\ result[p].skippedCount = 0
    /\ Cardinality(WrittenNow(registrants)) = 1
    /\ Cardinality(WrittenNow(registration_history)) = 2

\* C6: a valid row whose hash is on record, whether from an earlier import
\* or an earlier row of the batch, is counted as a duplicate and inserts no
\* record; the three-row scenario (no store operation throwing) reports
\* 2 processed, 1 duplicate, 0 skipped, with one Registrant and two
\* RegistrationRecords written.
DuplicateSkipsRecord ==
  [][\A p \in Procs :
       /\ DuplicateFound(p) =>
            /\ duplicateCount'[p] = duplicateCount[p] + 1
            /\ processedCount'[p] = processedCount[p]
            /\ registration_history' = registration_history
            /\ pc'[p] = "loop"
       /\ ScenarioReport(p)']_vars

\* C6 witness: the scenario has been imported and reported.
DuplicateSkipsRecordWitness ==
  \E p \in Procs :
    /\ Reported(p) /\ mode[p] = "keep" /\ Scenario(p)
    /\ result[p].duplicateCount = 1

\* C7 as stated: every invocation ends with a report, whose success flag is
\* false exactly when decoding failed.
AlwaysAReport ==
  [][\A p \in Procs :
       pc[p] # "done" /\ pc'[p] = "done" =>
         /\ result'[p].kind = "report"
         /\ result'[p].success = FALSE <=> pc[p] = "parse"]_vars

\* C8 as stated: a row counted as skipped, by rejection or by a caught
\* exception, has added no document to either collection.
SkippedRowWritesNothing ==
  [][\A p \in Procs :
       skippedCount'[p] = skippedCount[p] + 1 =>
         /\ rowWrites'[p] = 0
         /\ registrants' = registrants
         /\ registration_history' = registration_history]_vars

\* C9 as stated: a resident-status cell equal to a phrase of the table is
\* normalized to that phrase's category and any other text to "other", so
\* the normalized value is a member of the enumeration.
ResidentStatusClosed ==
  \A p \in Procs :
    rowData[p] # NoRow =>
      LET table == ResidentStatusEnum(entry[p])
          key == ResidentKey(entry[p], row[p].residentStatus)
      IN /\ key \in DOMAIN table => rowData[p].residentStatus = table[key]
         /\ key \notin DOMAIN table => rowData[p].residentStatus = "other"
         /\ rowData[p].residentStatus \in ResidentStatusType(entry[p])

\* Whether new Date() reads the cell as a date.
Parses(cell) == OrEmpty(cell) # "" /\ ~ParsedDate(OrEmpty(cell)).nan

\* C10: the submission-time cell never decides whether a row is rejected,
\* and the record of a processed row stores the parsed time when the cell
\* parses and the time of the import when it is empty or does not parse.
SubmitTimeDefault ==
  [][\A p \in Procs :
       /\ idx'[p] = idx[p] + 1 =>
            (pc'[p] = "queryRegistrants") =
              Accepts(entry[p],
                      extractRowData(entry[p],
                        WithCell(row'[p], "submitTime", BaseRow.submitTime),
                        now))
       /\ pc[p] = "addRegistration" /\ processedCount'[p] = processedCount[p] + 1 =>
            \E doc \in registration_history' \ registration_history :
              doc.data.submit_time =
                IF Parses(row[p].submitTime)
                THEN ParsedDate(row[p].submitTime).t ELSE now]_vars

\* C10 witness: a row whose time cell is empty or unparseable has been
\* processed and its record carries the time of the import.
SubmitTimeDefaultWitness ==
  \E p \in Procs :
    /\ pc[p] = "loop" /\ rowWrites[p] = 2
    /\ ~Parses(row[p].submitTime)
    /\ \E doc \in registration_history :
         /\ doc.data.surveycake_hash = rowData[p].surveycakeHash
         /\ doc.data.submit_time = now

\* C11: after any sequence of non-overlapping imports from an empty store, at
\* most one document of registrants carries a given (name, phone) pair.
OneRegistrantPerKey ==
  \A a, b \in registrants :
    a.data.name = b.data.name /\ a.data.phone = b.data.phone => a = b

\* C11 witness: a later import has looked up a person an earlier import
\* registered, found the document and goes on without adding one.
OneRegistrantPerKeyWitness ==
  \E p \in Procs :
    /\ pc[p] = "queryRegistration"
    /\ ~registrantsQueryEmpty[p]
    /\ rowWrites[p] = 0
    /\ \E doc \in WrittenBefore(registrants) :
         /\ doc.id = registrantId[p]
         /\ doc.data.name = rowData[p].name
         /\ doc.data.phone = rowData[p].phone

\* A store operation of the row under way throws and the row's catch block
\* runs.
RowFails(p) ==
  /\ pc[p] \in RowStates
  /\ failures' = failures + 1

\* C12: when a lookup or an insert throws in a row, skippedCount grows by
\* exactly one and no other counter moves, every document in the store
\* stays as it is, the invocation hands nothing to its caller, and the loop
\* stands at its head with the rows after the failed one still to take.
RowFailureContained ==
  [][\A p \in Procs :
       RowFails(p) =>
         /\ skippedCount'[p] = skippedCount[p] + 1
         /\ processedCount'[p] = processedCount[p]
         /\ duplicateCount'[p] = duplicateCount[p]
         /\ registrants' = registrants
         /\ registration_history' = registration_history
         /\ result'[p] = NoResult
         /\ pc'[p] = "loop"
         /\ idx'[p] = idx[p]]_vars

\* C12 witness: in the first import the one row counted as skipped is the
\* row whose store operation threw, and a row after it has been processed to
\* the end, its record inserted.
RowFailureContainedWitness ==
  \E p \in Procs :
    /\ now = 1 /\ failures = 1
    /\ pc[p] = "loop" /\ idx[p] >= 2
    /\ skippedCount[p] = 1
    /\ rowWrites[p] >= 1
    /\ \E doc \in registration_history :
         doc.data.surveycake_hash = rowData[p].surveycakeHash
    /\ processedCount[p] >= 1

\* The documents of registration_history that carry the hash.
WithHashOf(coll, hash) == {doc \in coll : doc.data.surveycake_hash = hash}

\* C13: an invocation that has passed the duplicate lookup inserts its
\* record and counts the row as processed whatever another invocation has
\* inserted since the lookup; two overlapping invocations whose rows share a
\* hash can therefore both stand past the lookup and both insert (the
\* witness).
LookupThenInsertRace ==
  [][\A p \in Procs :
       pc[p] = "addRegistration" /\ pc'[p] = "loop" /\ failures' = failures =>
         /\ Cardinality(WithHashOf(registration_history',
                                   rowData[p].surveycakeHash))
              = Cardinality(WithHashOf(registration_history,
                                       rowData[p].surveycakeHash)) + 1
         /\ processedCount'[p] = processedCount[p] + 1
         /\ duplicateCount'[p] = duplicateCount[p]]_vars

\* C13 witness: two overlapping invocations have each inserted a record for
\* a row with the same hash and each counts its row as processed.
LookupThenInsertRaceWitness ==
  \E p, q \in Procs :
    /\ p # q
    /\ pc[p] \in {"loop", "done"} /\ pc[q] \in {"loop", "done"}
    /\ rowData[p] # NoRow /\ rowData[q] # NoRow
    /\ rowData[p].surveycakeHash = rowData[q].surveycakeHash
    /\ processedCount[p] = 1 /\ processedCount[q] = 1
    /\ duplicateCount[p] = 0 /\ duplicateCount[q] = 0
    /\ Cardinality(WithHashOf(registration_history,
                              rowData[p].surveycakeHash)) = 2

\* The documents of registrants that carry the (name, phone) pair.
WithKeyOf(coll, name, phone) ==
  {doc \in coll : doc.data.name = name /\ doc.data.phone = phone}

\* Rows i < j of the kept sheet, both accepted, name the same person.
SamePerson(p, i, j) ==
  /\ i < j
  /\ Accepts(entry[p], KeptData(p, i)) /\ Accepts(entry[p], KeptData(p, j))
  /\ KeptData(p, i).name = KeptData(p, j).name
  /\ KeptData(p, i).phone = KeptData(p, j).phone

\* Rows i < j of the kept sheet, both accepted, carry the same hash.
SameHash(p, i, j) ==
  /\ i < j
  /\ Accepts(entry[p], KeptData(p, i)) /\ Accepts(entry[p], KeptData(p, j))
  /\ KeptData(p, i).surveycakeHash = KeptData(p, j).surveycakeHash

\* C14 as stated: of two rows of one batch that match on a natural key no
\* document carried before the batch, each observes "no existing match" and
\* inserts, so the batch leaves two Registrants for the (name, phone) pair
\* and two RegistrationRecords for the hash.
BatchRowsBothInsert ==
  \A p \in Procs :
    Reported(p) /\ mode[p] = "keep" =>
      \A i, j \in 1..Len(kept) :
        /\ SamePerson(p, i, j)
           /\ WithKeyOf(WrittenBefore(registrants),
                        KeptData(p, i).name, KeptData(p, i).phone) = {}
           => Cardinality(WithKeyOf(WrittenNow(registrants),
                          KeptData(p, i).name, KeptData(p, i).phone)) = 2
        /\ SameHash(p, i, j)
           /\ WithHashOf(WrittenBefore(registration_history),
                         KeptData(p, i).surveycakeHash) = {}
           => Cardinality(WithHashOf(WrittenNow(registration_history),
                          KeptData(p, i).surveycakeHash)) = 2

\* C14 as amended: in non-overlapping invocations a row inserts a Registrant
\* only when no document carries its (name, phone) at the moment of the
\* insert, and a RegistrationRecord only when no document carries its hash:
\* the later of two matching rows of one batch observes the document of the
\* earlier row and does not insert.
InsertOnlyWhenAbsent ==
  [][\A p \in Procs :
       /\ pc[p] = "addRegistrant" /\ registrants' # registrants =>
            WithKeyOf(registrants, rowData[p].name, rowData[p].phone) = {}
       /\ pc[p] = "addRegistration"
          /\ registration_history' # registration_history =>
            WithHashOf(registration_history, rowData[p].surveycakeHash) = {}]_vars

\* C14 witness: in the first import into the empty store, a row has found
\* the Registrant and the record that an earlier row of the same batch
\* inserted, and has written nothing.
InsertOnlyWhenAbsentWitness ==
  \E p \in Procs :
    /\ now = 1 /\ failures = 0
    /\ pc[p] = "loop" /\ idx[p] >= 2
    /\ duplicateCount[p] >= 1 /\ rowWrites[p] = 0
    /\ ~registrantsQueryEmpty[p]
    /\ Accepts(entry[p], rowData[p])
    /\ Cardinality(WithKeyOf(registrants, rowData[p].name, rowData[p].phone)) = 1
    /\ Cardinality(WithHashOf(registration_history,
                              rowData[p].surveycakeHash)) = 1

\* The order of the store operations of one row: from the loop head to the
\* registrant lookup, from there to the registrant insert or the hash
\* lookup, from the registrant insert to the hash lookup, from the hash
\* lookup to the record insert; any of them ends the row at the loop head.
RowOrder ==
  {<< "loop", "queryRegistrants" >>,
   << "queryRegistrants", "addRegistrant" >>,
   << "queryRegistrants", "queryRegistration" >>,
   << "addRegistrant", "queryRegistration" >>,
   << "queryRegistration", "addRegistration" >>}
  \cup {<< s, "loop" >> : s \in RowStates}

\* The steps of an invocation outside its rows.
FrameOrder ==
  {<< "idle", "parse" >>, << "parse", "loop" >>, << "parse", "done" >>,
   << "loop", "done" >>, << "done", "idle" >>}

\* C15: an invocation has one store operation under way at a time; within a
\* row they follow RowOrder, the hash lookup issued only once the registrant
\* is resolved; the next row is taken only at the loop head, when every
\* operation of the row before has completed, and rows are taken in input
\* order; and the store changes only in the insert steps.
StoreOperationsOrdered ==
  [][\A p \in Procs :
       /\ pc'[p] # pc[p] => << pc[p], pc'[p] >> \in RowOrder \cup FrameOrder
       /\ idx'[p] # idx[p] =>
            \/ pc[p] = "loop" /\ idx'[p] = idx[p] + 1
            \/ pc[p] = "done" /\ idx'[p] = 0
       /\ pc[p] \in RowStates => row'[p] = row[p] /\ rowData'[p] = rowData[p]
       /\ pc[p] \in {"queryRegistration", "addRegistration"} =>
            \E doc \in registrants :
              /\ doc.id = registrantId[p]
              /\ doc.data.name = rowData[p].name
              /\ doc.data.phone = rowData[p].phone
       /\ pc'[p] # pc[p] /\ registrants' # registrants =>
            pc[p] = "addRegistrant"
       /\ pc'[p] # pc[p] /\ registration_history' # registration_history =>
            pc[p] = "addRegistration"]_vars

\* C15 witness: the second row of a sheet stands before its record insert,
\* after its own registrant insert, the first row's two inserts completed.
StoreOperationsOrderedWitness ==
  \E p \in Procs :
    /\ pc[p] = "addRegistration"
    /\ idx[p] = 2
    /\ processedCount[p] = 1
    /\ rowWrites[p] = 1
    /\ Cardinality(WrittenNow(registrants)) = 2
    /\ Cardinality(WrittenNow(registration_history)) = 1

\* No two documents of the collection share an id.
UniqueIds(coll) == \A a, b \in coll : a.id = b.id => a = b

\* C16: every step of every invocation, overlapping or not, leaves each
\* document of both collections in place under its id with the field values
\* it had: documents are added, never updated or deleted.
ReadAndAppendOnly ==
  [][/\ registrants \subseteq registrants'
     /\ registration_history \subseteq registration_history'
     /\ UniqueIds(registrants')
     /\ UniqueIds(registration_history')]_vars

\* C16 witness: an invocation has inserted into both collections while the
\* documents of an earlier invocation are in them.
ReadAndAppendOnlyWitness ==
  \E p \in Procs :
    /\ pc[p] = "loop" /\ rowWrites[p] = 2
    /\ \E doc \in registrants : doc.data.created_at < now
    /\ \E doc \in registration_history : doc.data.created_at < now
    /\ \E doc \in registrants : doc.data.created_at = now
    /\ \E doc \in registration_history : doc.data.created_at = now

\* The place of a part in the message.
PartRank(part) ==
  CASE part = "processed" -> 1
    [] part = "skipped" -> 2
    [] part = "duplicate" -> 3
    [] OTHER -> 0

\* The message has the part, with the count.
HasPart(message, part, count) ==
  \E i \in 1..Len(message) :
    message[i].part = part /\ message[i].count = count

\* C17: the message of a success report starts with the processed part,
\* holds the skipped part exactly when skippedCount > 0 and the duplicate
\* part exactly when duplicateCount > 0, each with its count and once, in
\* that order.
SummaryMessageParts ==
  \A p \in Procs :
    Reported(p) =>
      LET m == result[p].message
      IN /\ Len(m) >= 1
         /\ m[1] = [part |-> "processed", count |-> result[p].processedCount]
         /\ (\E i \in 1..Len(m) : m[i].part = "skipped")
              <=> result[p].skippedCount > 0
         /\ (\E i \in 1..Len(m) : m[i].part = "duplicate")
              <=> result[p].duplicateCount > 0
         /\ result[p].skippedCount > 0
              => HasPart(m, "skipped", result[p].skippedCount)
         /\ result[p].duplicateCount > 0
              => HasPart(m, "duplicate", result[p].duplicateCount)
         /\ \A i, j \in 1..Len(m) :
              i < j => 0 < PartRank(m[i].part)
                       /\ PartRank(m[i].part) < PartRank(m[j].part)

\* C17 witness: a report with duplicates and no skipped row, whose message
\* is the processed part followed by the duplicate part.
SummaryMessagePartsWitness ==
  \E p \in Procs :
    /\ Reported(p)
    /\ result[p].skippedCount = 0
    /\ result[p].duplicateCount > 0
    /\ Len(result[p].message) = 2
    /\ result[p].message[2].part = "duplicate"

\* The row under way in invocation p is counted as a duplicate in this step.
CountedDuplicate(p) == duplicateCount'[p] = duplicateCount[p] + 1

\* C18: a row counted as a duplicate has inserted no record; when its
\* registrant lookup found nobody it has inserted one Registrant, the only
\* document written by the row and the only one carrying its (name, phone),
\* and when the lookup found the person it has written nothing.
DuplicateRowWrites ==
  [][\A p \in Procs :
       CountedDuplicate(p) =>
         LET mine == WithKeyOf(registrants, rowData[p].name, rowData[p].phone)
         IN /\ registration_history' = registration_history
            /\ registrants' = registrants
            /\ rowWrites[p] = IF registrantsQueryEmpty[p] THEN 1 ELSE 0
            /\ registrantsQueryEmpty[p] =>
                 /\ Cardinality(mine) = 1
                 /\ \A doc \in mine :
                      doc.id = registrantId[p] /\ doc.data.created_at = now
            /\ ~registrantsQueryEmpty[p] =>
                 \E doc \in mine : doc.id = registrantId[p]]_vars

\* C18 witness: a row of a person nobody had registered, whose hash is on
\* record, has been counted as a duplicate after inserting its Registrant.
DuplicateRowWritesWitness ==
  \E p \in Procs :
    /\ pc[p] = "loop"
    /\ duplicateCount[p] >= 1
    /\ registrantsQueryEmpty[p]
    /\ rowWrites[p] = 1
    /\ WithHashOf(registration_history, rowData[p].surveycakeHash) # {}
    /\ \E doc \in WrittenNow(registrants) :
         /\ doc.id = registrantId[p]
         /\ doc.data.name = rowData[p].name

\* C19: in every state of overlapping or non-overlapping imports, each
\* document of registration_history carries in registrant_id the id of a
\* document of registrants with the record's own name and phone.
RecordRefersToRegistrant ==
  \A r \in registration_history :
    \E g \in registrants :
      /\ g.id = r.data.registrant_id
      /\ g.data.name = r.data.name
      /\ g.data.phone = r.data.phone

\* C19 witness: two overlapping invocations have each registered the same
\* person and each inserted a record that refers to its own Registrant.
RecordRefersToRegistrantWitness ==
  \E a, b \in registration_history :
    /\ a.data.registrant_id # b.data.registrant_id
    /\ a.data.name = b.data.name /\ a.data.phone = b.data.phone
    /\ \E g, h \in registrants :
         /\ g.id = a.data.registrant_id /\ h.id = b.data.registrant_id
         /\ g.data.name = h.data.name /\ g.data.phone = h.data.phone

\* Invocation p uploads again the sheet that the import before it, in which
\* no store operation threw, has imported.
SecondRun(p) == mode[p] = "again" /\ pc[p] # "idle"

\* C20 as stated: the second run inserts nothing (no document of either
\* collection dates from it) and its processedCount is 0, whichever entry
\* point either run goes through.
ReimportInsertsNothing ==
  \A p \in Procs :
    SecondRun(p) =>
      /\ WrittenNow(registrants) = {}
      /\ WrittenNow(registration_history) = {}
      /\ processedCount[p] = 0
      /\ Reported(p) => result[p].processedCount = 0

\* The entry point that is not e.
OtherEntry(e) ==
  IF e = ProcessExcelUpload THEN UploadApplicationForm ELSE ProcessExcelUpload

\* Every one of the fifteen required cells of the row holds a value.
FullRow(r) == \A f \in TextFields : r[f] \notin {"", Absent}

\* Two records agree on every field but the one named.
SameBut(a, b, field) ==
  /\ DOMAIN a = DOMAIN b
  /\ \A f \in DOMAIN a \ {field} : a[f] = b[f]

\* C21 as stated: a row with all fifteen required cells non-empty is taken
\* the same way by both entry points: both accept it or both reject it, and
\* the normalized row and the two documents built from it differ at most in
\* the resident-status category (which both can store, or neither).  The
\* steps after the check are the same for both entry points and read no
\* resident status, so the counters and the inserts of a batch of such rows
\* agree when every row is taken the same way.
EntryPointsAgree ==
  [][\A p \in Procs :
       idx'[p] = idx[p] + 1 /\ FullRow(row'[p]) =>
         LET o == OtherEntry(entry[p])
             d == extractRowData(o, row'[p], now)
         IN /\ Accepts(o, d) = (pc'[p] = "queryRegistrants")
            /\ SameBut(d, rowData'[p], "residentStatus")
            /\ Serializable(buildRegistrantDoc(d, now))
                 = Serializable(buildRegistrantDoc(rowData'[p], now))
            /\ SameBut(buildRegistrantDoc(d, now),
                       buildRegistrantDoc(rowData'[p], now), "residient_type")
            /\ SameBut(buildRegistrationDoc(d, 1, now),
                       buildRegistrationDoc(rowData'[p], 1, now),
                       "residient_type")]_vars

\* The fourteen required fields other than the resident status.
OtherFields == TextFields \ {"residentStatus"}

\* C22: the resident status extractRowData yields is never empty, so
\* isValidRow decides as the other fourteen fields decide; a row whose
\* resident-status cell is empty or absent is normalized to "other" and,
\* its other fourteen fields non-empty, is accepted by processExcelUpload.
ResidentStatusNeverRejects ==
  [][\A p \in Procs :
       idx'[p] = idx[p] + 1 /\ entry[p] = ProcessExcelUpload =>
         LET d == rowData'[p]
             others == \A f \in OtherFields : d[f] # ""
         IN /\ d.residentStatus # ""
            /\ isValidRow(d) <=> others
            /\ row'[p].residentStatus \in {"", Absent} =>
                 /\ d.residentStatus = "other"
                 /\ others => pc'[p] = "queryRegistrants"]_vars

\* C22 witness: processExcelUpload has accepted a row whose resident-status
\* cell is empty or absent and goes on to the registrant lookup.
ResidentStatusNeverRejectsWitness ==
  \E p \in Procs :
    /\ entry[p] = ProcessExcelUpload
    /\ pc[p] = "queryRegistrants"
    /\ row[p].residentStatus \in {"", Absent}
    /\ rowData[p].residentStatus = "other"
    /\ \A f \in OtherFields : rowData[p][f] # ""

\* The fields of a Registration typed string | null.
NullableFields ==
  {"gender", "line_id", "housing_location", "age", "children_count",
   "sports_experience", "injury_history", "info_source", "suggestions"}

\* C23: a record processExcelUpload inserts holds a non-empty text in each
\* of the nine nullable fields, and a record that holds the null marker in
\* any of them is inserted by uploadApplicationForm.
ExcelRecordsHoldNoNull ==
  [][\A p \in Procs :
       pc[p] = "addRegistration" /\ processedCount'[p] = processedCount[p] + 1 =>
         /\ registration_history' # registration_history
         /\ \A doc \in registration_history' \ registration_history :
              /\ entry[p] = ProcessExcelUpload =>
                   \A f \in NullableFields : doc.data[f] \notin {Null, ""}
              /\ (\E f \in NullableFields : doc.data[f] = Null) =>
                   entry[p] = UploadApplicationForm]_vars

\* C23 witness: processExcelUpload has inserted the record of a row, each
\* of its nine nullable fields holding the text of the row.
ExcelRecordsHoldNoNullWitness ==
  \E p \in Procs :
    /\ entry[p] = ProcessExcelUpload
    /\ pc[p] = "loop" /\ rowWrites[p] = 2 /\ processedCount[p] = 1
    /\ \E doc \in registration_history :
         /\ doc.data.surveycake_hash = rowData[p].surveycakeHash
         /\ \A f \in NullableFields : doc.data[f] \notin {Null, ""}
         /\ doc.data.gender = rowData[p].gender
         /\ doc.data.suggestions = rowData[p].suggestions

====
